---------------------------- MODULE Spec2Model ----------------------------
(***************************************************************************)
(* Model of utils/security.js, the EchoViva anti-cheat monitor.            *)
(*                                                                         *)
(* The script is an IIFE that, on its first run in a page, declares the    *)
(* closure variables warningShown, tabSwitchCount, cheatAlert and          *)
(* devtoolsOpen, registers a visibilitychange listener, a blur listener    *)
(* and a 1000 ms interval, and publishes window.getEchoVivaCheatCount.     *)
(*                                                                         *)
(* Time is counted in whole seconds.  A timer is kept by the time that is  *)
(* left until it is due; a browser runs a timer callback no earlier than   *)
(* its due time and possibly later, so a due timer may fire at any later   *)
(* moment.  Every action is one run-to-completion handler of the page's    *)
(* event loop.                                                             *)
(***************************************************************************)
EXTENDS Integers, FiniteSets, Sequences

(***************************************************************************)
(* Program constants.                                                      *)
(***************************************************************************)
threshold == 160          \* const threshold = 160 (px)
FadeDelay == 4            \* setTimeout(..., 4000), in seconds
IntervalPeriod == 1       \* setInterval(..., 1000), in seconds

MsgTab == "Tab switch detected! Please stay on this tab during the viva."
MsgBlur == "Focus lost! Please remain in the viva window."
MsgDevtools == "Developer tools detected! Please close them to continue viva."
NoText == ""

\* element.style.opacity: never assigned on a new element, "1", or "0"
OpacityUnset == ""
OpacityFull == "1"
OpacityZero == "0"

(***************************************************************************)
(* Bounds of the model.                                                    *)
(***************************************************************************)
MaxCount == 2             \* hidden/blur events counted in one behaviour
MaxTimers == 2            \* fade timers pending at one time
RunCap == 3               \* consecutive breaching ticks told apart

\* window dimensions the environment may take, as
\* <<outerWidth, innerWidth, outerHeight, innerHeight>>: the differences
\* outer - inner are 0, negative, 160 and 161
WindowSizes ==
    { <<961, 961, 600, 761>>,      \* 0 and -161
      <<960, 800, 760, 600>>,      \* 160 and 160
      <<961, 800, 760, 600>>,      \* 161 and 160
      <<960, 800, 761, 600>> }     \* 160 and 161

VARIABLES
    loaded,             \* window.__ECHO_VIVA_SECURITY_LOADED__
    hasAccessor,        \* window.getEchoVivaCheatCount is defined
    warningShown,       \* closure variable
    tabSwitchCount,     \* closure variable
    cheatAlert,         \* closure variable: TRUE when it references an element
    devtoolsOpen,       \* closure variable
    textContent,        \* cheatAlert.textContent
    opacity,            \* cheatAlert.style.opacity
    noticesInBody,      \* notice elements appended to document.body
    fadeTimers,         \* pending setTimeout callbacks: time left -> how many
    nVisListeners,      \* visibilitychange listeners on document
    nBlurListeners,     \* blur listeners on window
    nIntervals,         \* running setInterval timers
    intervalLeft,       \* time left until the interval is due
    bodyAvailable,      \* document.body is not null
    documentHidden,     \* document.hidden
    outerWidth, innerWidth, outerHeight, innerHeight,   \* window.*
    lastRead,           \* <<v>> when the host's latest accessor call
                        \* returned v, <<>> before the first call
    \* history variables (not program state)
    nSuspicious,        \* hidden visibilitychange events and blur events heard
    nCreated,           \* document.createElement calls
    lastTrigger,        \* message of the latest warning-triggering event
    sinceShown,         \* seconds since the latest completed showWarning
    runTicks,           \* consecutive latest ticks that observed a breach,
                        \* counted up to RunCap; 0 after a normal tick
    runWarnings,        \* devtools warnings requested in the current breach run
    hvh,                \* progress of a hidden, visible, hidden succession of
                        \* visibilitychange events with no blur, no tick
                        \* and no second passing in between: 0 none,
                        \* 1 hidden, 2 then visible, 3 then hidden again
    hvhBase,            \* tabSwitchCount when that succession began
    reinjected          \* the script ran again in a page where it had run

monitorVars == <<warningShown, tabSwitchCount, cheatAlert, devtoolsOpen,
                 textContent, opacity, noticesInBody, fadeTimers>>
registrationVars == <<loaded, hasAccessor, nVisListeners, nBlurListeners,
                      nIntervals>>
envVars == <<bodyAvailable, documentHidden, outerWidth, innerWidth,
             outerHeight, innerHeight>>
dimVars == <<outerWidth, innerWidth, outerHeight, innerHeight>>
historyVars == <<nSuspicious, nCreated, lastTrigger, sinceShown,
                 runTicks, runWarnings, hvh, hvhBase, reinjected>>
vars == <<monitorVars, registrationVars, envVars, intervalLeft, lastRead,
          historyVars>>

\* the host has not called the accessor yet
NoRead == <<>>

Min(a, b) == IF a < b THEN a ELSE b
Max(a, b) == IF a > b THEN a ELSE b

RECURSIVE SumTo(_, _)
SumTo(f, n) == IF n < 0 THEN 0 ELSE f[n] + SumTo(f, n - 1)

\* number of pending fade timers
TimerCount == SumTo(fadeTimers, FadeDelay)

NoTimers == [r \in 0..FadeDelay |-> 0]

Init ==
    /\ loaded = FALSE
    /\ hasAccessor = FALSE
    /\ warningShown = FALSE
    /\ tabSwitchCount = 0
    /\ cheatAlert = FALSE
    /\ devtoolsOpen = FALSE
    /\ textContent = NoText
    /\ opacity = OpacityUnset
    /\ noticesInBody = 0
    /\ fadeTimers = NoTimers
    /\ nVisListeners = 0
    /\ nBlurListeners = 0
    /\ nIntervals = 0
    /\ intervalLeft = 0
    /\ bodyAvailable = FALSE
    /\ documentHidden = FALSE
    /\ outerWidth = 961
    /\ innerWidth = 961
    /\ outerHeight = 600
    /\ innerHeight = 761
    /\ lastRead = NoRead
    /\ nSuspicious = 0
    /\ nCreated = 0
    /\ lastTrigger = NoText
    /\ sinceShown = FadeDelay
    /\ runTicks = 0
    /\ runWarnings = 0
    /\ hvh = 0
    /\ hvhBase = 0
    /\ reinjected = FALSE


(***************************************************************************)
(* showWarning(message), lines 20-47.  With no element yet, one is         *)
(* created, styled (no opacity is assigned), given the message and         *)
(* appended to document.body; when document.body is null the append        *)
(* throws a TypeError after cheatAlert and its text have been assigned,    *)
(* and the rest of the handler, the setTimeout included, is not run.       *)
(* Otherwise the held element gets the message and opacity "1".  A call    *)
(* that does not throw schedules a fade timer.                             *)
(***************************************************************************)
ScheduleFade == [fadeTimers EXCEPT ![FadeDelay] = @ + 1]

\* as showWarning, but the held element keeps its old text
showWarning_KeepText(message) ==
    IF ~cheatAlert
    THEN /\ cheatAlert' = TRUE
         /\ nCreated' = nCreated + 1
         /\ opacity' = OpacityUnset
         /\ textContent' = message
         /\ IF bodyAvailable
            THEN /\ noticesInBody' = noticesInBody + 1
                 /\ fadeTimers' = ScheduleFade
            ELSE /\ noticesInBody' = noticesInBody
                 /\ fadeTimers' = fadeTimers
    ELSE /\ cheatAlert' = cheatAlert
         /\ nCreated' = nCreated
         /\ textContent' = textContent
         /\ opacity' = OpacityFull
         /\ noticesInBody' = noticesInBody
         /\ fadeTimers' = ScheduleFade

\* as showWarning, but without the test of cheatAlert: every call creates
showWarning_AlwaysCreate(message) ==
    /\ cheatAlert' = TRUE
    /\ nCreated' = nCreated + 1
    /\ opacity' = OpacityUnset
    /\ textContent' = message
    /\ IF bodyAvailable
       THEN /\ noticesInBody' = noticesInBody + 1
            /\ fadeTimers' = ScheduleFade
       ELSE /\ noticesInBody' = noticesInBody
            /\ fadeTimers' = fadeTimers

showWarning(message) ==
    IF ~cheatAlert
    THEN /\ cheatAlert' = TRUE
         /\ nCreated' = nCreated + 1
         /\ opacity' = OpacityUnset
         /\ textContent' = message
         /\ IF bodyAvailable
            THEN /\ noticesInBody' = noticesInBody + 1
                 /\ fadeTimers' = ScheduleFade
            ELSE /\ noticesInBody' = noticesInBody
                 /\ fadeTimers' = fadeTimers
    ELSE /\ cheatAlert' = cheatAlert
         /\ nCreated' = nCreated
         /\ textContent' = message
         /\ opacity' = OpacityFull
         /\ noticesInBody' = noticesInBody
         /\ fadeTimers' = ScheduleFade

NoWarning ==
    UNCHANGED <<cheatAlert, nCreated, textContent, opacity, noticesInBody,
                fadeTimers>>

\* the setTimeout callback, lines 44-46
FadeCallback ==
    /\ opacity' = IF cheatAlert THEN OpacityZero ELSE opacity
    /\ UNCHANGED <<cheatAlert, nCreated, textContent, noticesInBody>>

\* as Incremented, but the event is not counted
Incremented_Lost == tabSwitchCount

\* as Incremented, but the event is counted twice
Incremented_Twice == tabSwitchCount + 2

\* tabSwitchCount++, lines 52 and 61
Incremented == tabSwitchCount + 1

\* as OnVisibilityChange, but without the test of document.hidden
OnVisibilityChange_NoCheck(hidden) ==
    /\ tabSwitchCount' = Incremented
    /\ warningShown' = TRUE
    /\ showWarning(MsgTab)
    /\ UNCHANGED devtoolsOpen

\* the visibilitychange listener, lines 50-56
OnVisibilityChange(hidden) ==
    IF hidden
    THEN /\ tabSwitchCount' = Incremented
         /\ warningShown' = TRUE
         /\ showWarning(MsgTab)
         /\ UNCHANGED devtoolsOpen
    ELSE /\ UNCHANGED <<tabSwitchCount, warningShown, devtoolsOpen>>
         /\ NoWarning

\* as OnBlur, but showWarning is called before the event is counted, so
\* that a throwing showWarning ends the listener with nothing counted
OnBlur_WarnFirst ==
    /\ showWarning(MsgBlur)
    /\ IF ~cheatAlert /\ ~bodyAvailable
       THEN UNCHANGED <<tabSwitchCount, warningShown>>
       ELSE /\ tabSwitchCount' = Incremented
            /\ warningShown' = TRUE
    /\ UNCHANGED devtoolsOpen

\* the blur listener, lines 59-64
OnBlur ==
    /\ tabSwitchCount' = Incremented
    /\ warningShown' = TRUE
    /\ showWarning(MsgBlur)
    /\ UNCHANGED devtoolsOpen

\* as widthDiff, but a difference equal to the threshold counts
widthDiff_NonStrict == outerWidth - innerWidth >= threshold

\* lines 70-71
widthDiff == outerWidth - innerWidth > threshold
heightDiff == outerHeight - innerHeight > threshold

\* as DevtoolsCheck, but without the test of devtoolsOpen
DevtoolsCheck_Repeat ==
    /\ IF widthDiff \/ heightDiff
       THEN /\ devtoolsOpen' = TRUE
            /\ showWarning(MsgDevtools)
       ELSE /\ devtoolsOpen' = FALSE
            /\ NoWarning
    /\ UNCHANGED <<tabSwitchCount, warningShown>>

\* as DevtoolsCheck, but a detection is counted like a tab switch
DevtoolsCheck_Counts ==
    IF widthDiff \/ heightDiff
    THEN IF ~devtoolsOpen
         THEN /\ devtoolsOpen' = TRUE
              /\ tabSwitchCount' = Incremented
              /\ showWarning(MsgDevtools)
              /\ UNCHANGED warningShown
         ELSE /\ devtoolsOpen' = devtoolsOpen
              /\ NoWarning
              /\ UNCHANGED <<tabSwitchCount, warningShown>>
    ELSE /\ devtoolsOpen' = FALSE
         /\ NoWarning
         /\ UNCHANGED <<tabSwitchCount, warningShown>>

\* as DevtoolsCheck, but the notice is hidden when the dimensions are normal
DevtoolsCheck_HideOnReset ==
    /\ IF widthDiff \/ heightDiff
       THEN IF ~devtoolsOpen
            THEN /\ devtoolsOpen' = TRUE
                 /\ showWarning(MsgDevtools)
            ELSE /\ devtoolsOpen' = devtoolsOpen
                 /\ NoWarning
       ELSE /\ devtoolsOpen' = FALSE
            /\ opacity' = IF cheatAlert THEN OpacityZero ELSE opacity
            /\ UNCHANGED <<cheatAlert, nCreated, textContent, noticesInBody,
                           fadeTimers>>
    /\ UNCHANGED <<tabSwitchCount, warningShown>>

\* as DevtoolsCheck, but the flag is never cleared
DevtoolsCheck_Latch ==
    /\ IF widthDiff \/ heightDiff
       THEN IF ~devtoolsOpen
            THEN /\ devtoolsOpen' = TRUE
                 /\ showWarning(MsgDevtools)
            ELSE /\ devtoolsOpen' = devtoolsOpen
                 /\ NoWarning
       ELSE /\ devtoolsOpen' = devtoolsOpen
            /\ NoWarning
    /\ UNCHANGED <<tabSwitchCount, warningShown>>

\* as DevtoolsCheck, but a devtools warning sets warningShown as the
\* listeners do
DevtoolsCheck_SetsFlag ==
    IF widthDiff \/ heightDiff
    THEN IF ~devtoolsOpen
         THEN /\ devtoolsOpen' = TRUE
              /\ warningShown' = TRUE
              /\ showWarning(MsgDevtools)
              /\ UNCHANGED tabSwitchCount
         ELSE /\ devtoolsOpen' = devtoolsOpen
              /\ NoWarning
              /\ UNCHANGED <<tabSwitchCount, warningShown>>
    ELSE /\ devtoolsOpen' = FALSE
         /\ NoWarning
         /\ UNCHANGED <<tabSwitchCount, warningShown>>

\* the setInterval callback, lines 69-80
DevtoolsCheck ==
    /\ IF widthDiff \/ heightDiff
       THEN IF ~devtoolsOpen
            THEN /\ devtoolsOpen' = TRUE
                 /\ showWarning(MsgDevtools)
            ELSE /\ devtoolsOpen' = devtoolsOpen
                 /\ NoWarning
       ELSE /\ devtoolsOpen' = FALSE
            /\ NoWarning
    /\ UNCHANGED <<tabSwitchCount, warningShown>>

\* as getEchoVivaCheatCount, but returning the flag instead of the count
getEchoVivaCheatCount_Flag == IF warningShown THEN 1 ELSE 0

\* window.getEchoVivaCheatCount = () => tabSwitchCount, line 83
getEchoVivaCheatCount == tabSwitchCount

\* as AlreadyLoaded, but the flag is not tested
AlreadyLoaded_Never == FALSE

\* the injection guard, line 13
AlreadyLoaded == loaded

(***************************************************************************)
(* What a step shows of showWarning, read off the page and the timers: a   *)
(* call either takes a reference to a new element or schedules a fade.     *)
(***************************************************************************)
WarningRequested == cheatAlert' # cheatAlert \/ fadeTimers' # fadeTimers
WarningDisplayed == fadeTimers' # fadeTimers
WithinBounds ==
    /\ tabSwitchCount' <= MaxCount
    /\ SumTo(fadeTimers', FadeDelay) <= MaxTimers

\* the window really is wider or taller than its viewport by more than 160
Breach == outerWidth - innerWidth > 160 \/ outerHeight - innerHeight > 160

(***************************************************************************)
(* Actions.                                                                *)
(***************************************************************************)

\* The script runs (lines 10-84): the first time in the page, or again.
RunScript ==
    /\ IF AlreadyLoaded
       THEN UNCHANGED <<monitorVars, registrationVars, intervalLeft, nCreated>>
       ELSE /\ loaded' = TRUE
            /\ warningShown' = FALSE
            /\ tabSwitchCount' = 0
            /\ cheatAlert' = FALSE
            /\ textContent' = NoText
            /\ opacity' = OpacityUnset
            /\ nVisListeners' = nVisListeners + 1
            /\ nBlurListeners' = nBlurListeners + 1
            /\ devtoolsOpen' = FALSE
            /\ nIntervals' = nIntervals + 1
            /\ intervalLeft' = IntervalPeriod
            /\ hasAccessor' = TRUE
            /\ UNCHANGED <<noticesInBody, fadeTimers, nCreated>>
    /\ reinjected' = (reinjected \/ loaded)
    /\ UNCHANGED <<envVars, lastRead>>
    /\ UNCHANGED <<nSuspicious, lastTrigger, sinceShown, runTicks,
                   runWarnings, hvh, hvhBase>>

\* The parser reaches <body>: document.body is there from now on.
BodyParsed ==
    /\ ~bodyAvailable
    /\ bodyAvailable' = TRUE
    /\ UNCHANGED <<monitorVars, registrationVars, intervalLeft, lastRead,
                   documentHidden, dimVars, historyVars>>

\* A visibilitychange event is dispatched with document.hidden = hidden.
VisibilityChange(hidden) ==
    /\ documentHidden' = hidden
    /\ IF nVisListeners > 0
       THEN /\ OnVisibilityChange(hidden)
            /\ nSuspicious' = nSuspicious + (IF hidden THEN 1 ELSE 0)
            /\ lastTrigger' = IF hidden THEN MsgTab ELSE lastTrigger
            /\ sinceShown' = IF WarningDisplayed THEN 0 ELSE sinceShown
            /\ hvh' = IF hidden THEN (IF hvh = 2 THEN 3 ELSE 1)
                                ELSE (IF hvh = 1 THEN 2 ELSE 0)
            /\ hvhBase' = IF hvh' = 0 THEN 0
                          ELSE IF hvh' = 1 THEN tabSwitchCount
                          ELSE hvhBase
       ELSE /\ UNCHANGED monitorVars
            /\ UNCHANGED <<nSuspicious, lastTrigger, sinceShown, hvh,
                           hvhBase, nCreated>>
    /\ WithinBounds
    /\ UNCHANGED <<registrationVars, intervalLeft, lastRead, bodyAvailable,
                   dimVars, runTicks, runWarnings, reinjected>>

\* A blur event is dispatched on window.
Blur ==
    /\ IF nBlurListeners > 0
       THEN /\ OnBlur
            /\ nSuspicious' = nSuspicious + 1
            /\ lastTrigger' = MsgBlur
            /\ sinceShown' = IF WarningDisplayed THEN 0 ELSE sinceShown
            /\ hvh' = 0
            /\ hvhBase' = 0
       ELSE /\ UNCHANGED monitorVars
            /\ UNCHANGED <<nSuspicious, lastTrigger, sinceShown, hvh, hvhBase,
                           nCreated>>
    /\ WithinBounds
    /\ UNCHANGED <<registrationVars, intervalLeft, lastRead, envVars,
                   runTicks, runWarnings, reinjected>>

\* The interval is due and its callback runs: a dimension-check tick.
Tick ==
    /\ nIntervals > 0
    /\ intervalLeft = 0
    /\ intervalLeft' = IntervalPeriod
    /\ DevtoolsCheck
    /\ WithinBounds
    /\ runTicks' = IF Breach THEN Min(RunCap, runTicks + 1) ELSE 0
    /\ runWarnings' = (IF Breach /\ runTicks > 0 THEN runWarnings ELSE 0)
                      + (IF WarningRequested THEN 1 ELSE 0)
    /\ lastTrigger' = IF devtoolsOpen' /\ ~devtoolsOpen THEN MsgDevtools
                                                       ELSE lastTrigger
    /\ sinceShown' = IF WarningDisplayed THEN 0 ELSE sinceShown
    /\ hvh' = 0
    /\ hvhBase' = 0
    /\ UNCHANGED <<registrationVars, lastRead, envVars, nSuspicious,
                   reinjected>>

\* A due fade timer fires.
FadeFire ==
    /\ fadeTimers[0] > 0
    /\ fadeTimers' = [fadeTimers EXCEPT ![0] = @ - 1]
    /\ FadeCallback
    /\ UNCHANGED <<warningShown, tabSwitchCount, devtoolsOpen>>
    /\ UNCHANGED <<registrationVars, intervalLeft, lastRead, envVars>>
    /\ UNCHANGED <<nSuspicious, lastTrigger, sinceShown, runTicks,
                   runWarnings, hvh, hvhBase, reinjected>>

\* The host page calls window.getEchoVivaCheatCount().
CallAccessor ==
    /\ hasAccessor
    /\ lastRead' = <<getEchoVivaCheatCount>>
    /\ UNCHANGED <<monitorVars, registrationVars, intervalLeft, envVars,
                   historyVars>>

\* The window is resized, or a panel docks or undocks.
Resize ==
    /\ \E size \in WindowSizes \ {dimVars} :
          /\ outerWidth' = size[1]
          /\ innerWidth' = size[2]
          /\ outerHeight' = size[3]
          /\ innerHeight' = size[4]
    /\ UNCHANGED <<monitorVars, registrationVars, intervalLeft, lastRead,
                   bodyAvailable, documentHidden, historyVars>>

\* One second passes.
Advance ==
    /\ fadeTimers' = [r \in 0..FadeDelay |->
                        IF r = 0 THEN fadeTimers[0] + fadeTimers[1]
                        ELSE IF r = FadeDelay THEN 0
                        ELSE fadeTimers[r + 1]]
    /\ intervalLeft' = Max(0, intervalLeft - 1)
    /\ sinceShown' = Min(FadeDelay, sinceShown + 1)
    /\ UNCHANGED <<warningShown, tabSwitchCount, cheatAlert, devtoolsOpen,
                   textContent, opacity, noticesInBody>>
    /\ UNCHANGED <<registrationVars, lastRead, envVars>>
    /\ hvh' = 0
    /\ hvhBase' = 0
    /\ UNCHANGED <<nSuspicious, nCreated, lastTrigger, runTicks,
                   runWarnings, reinjected>>

Next ==
    \/ RunScript
    \/ BodyParsed
    \/ \E hidden \in BOOLEAN : VisibilityChange(hidden)
    \/ Blur
    \/ Tick
    \/ FadeFire
    \/ CallAccessor
    \/ Resize
    \/ Advance

Spec == Init /\ [][Next]_vars

(***************************************************************************)
(* The same page with the scheduling a browser gives its timers: time      *)
(* passes, a due setTimeout callback is eventually run, and so is a due    *)
(* interval callback.  Events and accessor calls may or may not come.      *)
(***************************************************************************)
FairSpec ==
    /\ Spec
    /\ WF_vars(Advance)
    /\ WF_vars(FadeFire)
    /\ WF_vars(Tick)

(***************************************************************************)
(* The dimension check on its own: a page in which the script has run and  *)
(* document.body is there, with no visibilitychange and no blur event, and *)
(* window dimensions drawn from sets whose differences outer - inner are   *)
(* -1, 0, 159, 160, 161 and 162 on each axis independently.                *)
(***************************************************************************)
OuterSizes == {800, 960, 961, 962}
InnerSizes == {800, 801}

DimInit ==
    /\ loaded = TRUE
    /\ hasAccessor = TRUE
    /\ warningShown = FALSE
    /\ tabSwitchCount = 0
    /\ cheatAlert = FALSE
    /\ devtoolsOpen = FALSE
    /\ textContent = NoText
    /\ opacity = OpacityUnset
    /\ noticesInBody = 0
    /\ fadeTimers = NoTimers
    /\ nVisListeners = 1
    /\ nBlurListeners = 1
    /\ nIntervals = 1
    /\ intervalLeft = IntervalPeriod
    /\ bodyAvailable = TRUE
    /\ documentHidden = FALSE
    /\ outerWidth \in OuterSizes
    /\ innerWidth \in InnerSizes
    /\ outerHeight \in OuterSizes
    /\ innerHeight \in InnerSizes
    /\ lastRead = NoRead
    /\ nSuspicious = 0
    /\ nCreated = 0
    /\ lastTrigger = NoText
    /\ sinceShown = FadeDelay
    /\ runTicks = 0
    /\ runWarnings = 0
    /\ hvh = 0
    /\ hvhBase = 0
    /\ reinjected = FALSE

DimResize ==
    /\ outerWidth' \in OuterSizes
    /\ innerWidth' \in InnerSizes
    /\ outerHeight' \in OuterSizes
    /\ innerHeight' \in InnerSizes
    /\ <<outerWidth', innerWidth', outerHeight', innerHeight'>> # dimVars
    /\ UNCHANGED <<monitorVars, registrationVars, intervalLeft, lastRead,
                   bodyAvailable, documentHidden, historyVars>>

DimNext ==
    \/ Tick
    \/ FadeFire
    \/ DimResize
    \/ Advance

DimSpec == DimInit /\ [][DimNext]_vars

(***************************************************************************)
(* Properties.                                                             *)
(***************************************************************************)

\* C1: after load, the value getEchoVivaCheatCount returns equals the number
\* of visibilitychange events heard with document.hidden true plus the number
\* of blur events heard since load, whatever ticks, fade timers and devtools
\* detections happened in between; every such event counts.
C1_CountEqualsEvents ==
    hasAccessor => getEchoVivaCheatCount = nSuspicious

C1_Witness ==
    /\ hasAccessor
    /\ nSuspicious = 2
    /\ getEchoVivaCheatCount = 2
    /\ runWarnings = 1
    /\ opacity = OpacityZero

\* C2: running the script again in a page where it ran is a no-op: one
\* visibilitychange listener, one blur listener and one interval remain, the
\* run changes no monitor state and no registration, the accessor still
\* returns the first run's counter, and every hidden or blur event after it
\* still adds exactly 1.
C2_ReinjectionIsNoOp ==
    /\ [](reinjected => /\ nVisListeners = 1
                        /\ nBlurListeners = 1
                        /\ nIntervals = 1
                        /\ getEchoVivaCheatCount = nSuspicious)
    /\ [][(loaded /\ RunScript)
            => UNCHANGED <<monitorVars, registrationVars, intervalLeft>>]_vars
    /\ [][(reinjected /\ (VisibilityChange(TRUE) \/ Blur))
            => tabSwitchCount' = tabSwitchCount + 1]_vars

C2_Witness ==
    /\ reinjected
    /\ nSuspicious = 2
    /\ tabSwitchCount = 2
    /\ cheatAlert
    /\ devtoolsOpen

\* C3: after a tick that observed normal dimensions no devtools warning of a
\* run is outstanding; throughout a run of consecutive ticks that observed a
\* difference above 160 on some axis exactly one devtools warning has been
\* requested (by the first tick of the run) and the flag is set; a breach
\* after a normal tick starts a new run with one more warning.
C3_OneWarningPerRun ==
    IF runTicks > 0
    THEN runWarnings = 1 /\ devtoolsOpen
    ELSE runWarnings = 0

C3_Witness ==
    /\ runTicks = 3
    /\ runWarnings = 1
    /\ devtoolsOpen
    /\ textContent = MsgDevtools

\* C4: whenever the monitor holds a notice element, its text is the message
\* of the latest triggering event: a hidden visibilitychange, a blur, or a
\* tick that turned the devtools flag from false to true.
C4_TextIsLatestMessage ==
    cheatAlert => textContent = lastTrigger

C4_Witness ==
    /\ cheatAlert
    /\ lastTrigger = MsgDevtools
    /\ textContent = MsgDevtools
    /\ opacity = OpacityFull
    /\ nSuspicious >= 1

\* C5: the notice's opacity is "0" only when at least 4 seconds have passed
\* since the latest showWarning call that displayed it.
C5_NoEarlyFade ==
    opacity = OpacityZero => sinceShown >= FadeDelay

\* C6: a call of getEchoVivaCheatCount returns the present value of the
\* counter, 0 before any hidden or blur event, and changes no monitor state,
\* no registration and no timer.
C6_AccessorReadOnly ==
    [][CallAccessor
         => /\ lastRead' = <<tabSwitchCount>>
            /\ (nSuspicious = 0 => lastRead' = <<0>>)
            /\ UNCHANGED <<monitorVars, registrationVars, intervalLeft>>]_vars

C6_Witness ==
    /\ lastRead = <<2>>
    /\ tabSwitchCount = 2
    /\ TimerCount > 0

\* C7: at most one notice element is ever created and at most one is in the
\* page; once the monitor holds an element it holds it for ever, no element
\* leaves the page, and no further one is created.
C7_SingleNotice ==
    /\ [](nCreated <= 1 /\ noticesInBody <= nCreated /\ (cheatAlert <=> nCreated = 1))
    /\ [][cheatAlert => /\ cheatAlert'
                        /\ nCreated' = nCreated
                        /\ noticesInBody' >= noticesInBody]_vars

C7_Witness ==
    /\ nCreated = 1
    /\ noticesInBody = 1
    /\ nSuspicious = 2
    /\ lastTrigger = MsgDevtools
    /\ opacity = OpacityZero

\* C8: the counter starts at 0, is a natural number in every state, and every
\* step leaves it unchanged or adds exactly 1.
C8_CounterMonotone ==
    /\ tabSwitchCount = 0
    /\ [](tabSwitchCount \in Nat)
    /\ [][\/ tabSwitchCount' = tabSwitchCount
          \/ tabSwitchCount' = tabSwitchCount + 1]_vars

C8_Witness ==
    /\ tabSwitchCount = 2
    /\ reinjected
    /\ lastRead = <<1>>

\* C9: a visibilitychange event heard while the document is visible changes
\* no monitor state; after hidden, visible, hidden in succession the counter
\* is 2 above its value before and the notice text is the tab-switch message.
C9_VisibleChangesNothing ==
    /\ [][VisibilityChange(FALSE) => UNCHANGED monitorVars]_vars
    /\ [](hvh = 3 => /\ tabSwitchCount = hvhBase + 2
                     /\ textContent = MsgTab)

C9_Witness ==
    /\ hvh = 3
    /\ documentHidden
    /\ tabSwitchCount = hvhBase + 2
    /\ textContent = MsgTab

\* C10: no dimension-check tick changes the counter, so the accessor returns
\* the same value before and after it, whichever branch the tick takes.
C10_TickKeepsCount ==
    [][Tick => /\ tabSwitchCount' = tabSwitchCount
               /\ getEchoVivaCheatCount' = getEchoVivaCheatCount]_vars

C10_Witness ==
    /\ tabSwitchCount = 1
    /\ nSuspicious = 1
    /\ runTicks = 2
    /\ runWarnings = 1

\* C11: a tick that observes normal dimensions clears the devtools flag and
\* changes nothing else of the monitor (no warning, text, opacity and fade
\* timers as they were); a tick that observes a breach with the flag already
\* set changes no monitor state at all, whatever the notice shows by then.
C11_SilentResetNoRewarn ==
    [][Tick => /\ (~Breach =>
                     /\ ~devtoolsOpen'
                     /\ UNCHANGED <<warningShown, tabSwitchCount, cheatAlert,
                                    textContent, opacity, noticesInBody,
                                    fadeTimers>>)
               /\ (Breach /\ devtoolsOpen => UNCHANGED monitorVars)]_vars

\* the latest tick came after the latest display (intervalLeft is reset by a
\* tick and lowered by every second, sinceShown grows with every second): it
\* was a breaching tick with the flag set, over a focus-lost notice
C11_Witness ==
    /\ runTicks >= 2
    /\ devtoolsOpen
    /\ intervalLeft = IntervalPeriod
    /\ sinceShown >= 1
    /\ lastTrigger = MsgBlur
    /\ textContent = MsgBlur

\* C14: after every showWarning call that returns (it has scheduled its fade
\* timer) while document.body is available, the notice element the monitor
\* holds is in the page; so a first call made without document.body followed
\* by a call made with it leaves the notice in the page.
C14_HeldNoticeIsInPage ==
    [][(bodyAvailable /\ fadeTimers'[FadeDelay] > fadeTimers[FadeDelay])
         => (cheatAlert' /\ noticesInBody' = 1)]_vars

\* C15: a hidden or blur event whose showWarning call fails for want of
\* document.body is still counted by exactly 1 and leaves the listeners, the
\* interval and the accessor registered; from then on every hidden and blur
\* event is still counted and every tick still samples the dimensions.
C15_FailedDisplayLosesNothing ==
    /\ [][(/\ loaded /\ ~bodyAvailable /\ ~cheatAlert
           /\ (VisibilityChange(TRUE) \/ Blur))
            => /\ tabSwitchCount' = tabSwitchCount + 1
               /\ cheatAlert' /\ noticesInBody' = noticesInBody
               /\ UNCHANGED registrationVars]_vars
    /\ []((cheatAlert /\ noticesInBody = 0)
            => /\ nVisListeners = 1 /\ nBlurListeners = 1 /\ nIntervals = 1
               /\ hasAccessor
               /\ tabSwitchCount = nSuspicious
               /\ (devtoolsOpen <=> runTicks > 0))

C15_Witness ==
    /\ cheatAlert
    /\ noticesInBody = 0
    /\ tabSwitchCount = 2
    /\ nSuspicious = 2
    /\ lastTrigger = MsgBlur
    /\ runTicks = 2

\* C16: the devtools flag is false at load and in every state equals what
\* the latest tick observed (false before the first tick); only a tick
\* changes it, so a resize between two ticks changes neither the flag nor
\* anything else of the monitor.
C16_FlagIsLastSample ==
    /\ [](devtoolsOpen <=> runTicks > 0)
    /\ [][devtoolsOpen' # devtoolsOpen => Tick]_vars
    /\ [][Resize => UNCHANGED monitorVars]_vars

\* a breach is under way after a normal tick, the flag still false, in a
\* page that has had a devtools warning before
C16_Witness ==
    /\ loaded
    /\ ~devtoolsOpen
    /\ runTicks = 0
    /\ Breach
    /\ intervalLeft = IntervalPeriod
    /\ lastTrigger = MsgDevtools

\* C17: warningShown is true exactly when the counter is above 0; once true
\* it stays true, and no tick (so no devtools warning) and no fade timer
\* changes it.
C17_WarningShownTracksCount ==
    /\ [](warningShown <=> tabSwitchCount > 0)
    /\ [][warningShown => warningShown']_vars
    /\ [][(Tick \/ FadeFire) => UNCHANGED warningShown]_vars

C17_Witness ==
    /\ ~warningShown
    /\ tabSwitchCount = 0
    /\ cheatAlert
    /\ runWarnings = 1
    /\ textContent = MsgDevtools

\* C13: for all dimensions of the bounded sets, a tick leaves the flag set
\* if and only if outerWidth - innerWidth > 160 or outerHeight - innerHeight
\* > 160, requests a warning only on such a breach, and requests one on a
\* breach found with the flag clear: 160 on both axes, 0 and negative
\* differences trigger nothing, 161 on one axis does.
C13_StrictThreshold ==
    [][Tick => /\ devtoolsOpen' <=> (\/ outerWidth - innerWidth > 160
                                     \/ outerHeight - innerHeight > 160)
               /\ WarningRequested => Breach
               /\ (Breach /\ ~devtoolsOpen) => WarningRequested]_vars

C13_Witness ==
    /\ outerWidth - innerWidth = 160
    /\ outerHeight - innerHeight = 161
    /\ intervalLeft = IntervalPeriod
    /\ devtoolsOpen
    /\ runTicks = 1
    /\ runWarnings = 1
    /\ textContent = MsgDevtools

\* a step in which showWarning was called: it took a reference to a new
\* element or scheduled a fade timer
ShowWarningCalled ==
    \/ cheatAlert' # cheatAlert
    \/ fadeTimers'[FadeDelay] > fadeTimers[FadeDelay]

\* C12: if from some point on showWarning is not called again, then from
\* some point on a notice the monitor holds has opacity "0" and is in the
\* page with the message of the latest triggering event; and opacity "0"
\* is left only by a showWarning call.
C12_NoticeAutoFades ==
    /\ (<>[][~ShowWarningCalled]_vars)
         => <>[](cheatAlert => /\ opacity = OpacityZero
                               /\ noticesInBody = 1
                               /\ textContent = lastTrigger)
    /\ [][(opacity = OpacityZero /\ opacity' # OpacityZero)
            => ShowWarningCalled]_vars

=============================================================================
